---- MODULE Spec2Model ----
(***************************************************************************)
(* Model of the Arazzo document validator (src/models/arazzo.py) and of    *)
(* the demo driver's documents (src/main.py).                              *)
(*                                                                         *)
(* A decoded document is a JSON value: a record [t, v] whose tag t is one  *)
(* of "null", "str", "num", "list", "map".  A mapping keeps its entries as *)
(* a sequence of <<key, value>> pairs, in source order, as a Python dict   *)
(* does.  validate_arazzo_data is a pure function of that value; every     *)
(* pydantic model class is an operator that returns a validation result    *)
(* [val, errs, crash]: the typed node, the error records collected, and    *)
(* whether an exception that is no validation error (a TypeError) left the *)
(* validator.                                                              *)
(***************************************************************************)
EXTENDS Integers, Sequences, FiniteSets, TLC

VARIABLES data, pc, result, second

vars == <<data, pc, result, second>>

(***************************************************************************)
(* Decoded JSON values                                                     *)
(***************************************************************************)
Null == [t |-> "null", v |-> "None"]
Str(s) == [t |-> "str", v |-> s]
Num(n) == [t |-> "num", v |-> n]
List(items) == [t |-> "list", v |-> items]
Map(pairs) == [t |-> "map", v |-> pairs]

IsNone(x) == x.t = "null"

\* Python truthiness of an Optional[str] field: None and "" are falsy.
Truthy(x) == x.t = "str" /\ x.v # ""

HasKey(m, k) == \E i \in 1..Len(m.v) : m.v[i][1] = k

Lookup(m, k) == m.v[CHOOSE i \in 1..Len(m.v) : m.v[i][1] = k][2]

RECURSIVE Flat(_)
Flat(seqs) == IF seqs = <<>> THEN <<>> ELSE Head(seqs) \o Flat(Tail(seqs))

RECURSIVE SelectPairs(_, _)
\* the entries of a sequence of pairs whose key is not in keys, in order
SelectPairs(pairs, keys) ==
    IF pairs = <<>> THEN <<>>
    ELSE IF Head(pairs)[1] \in keys THEN SelectPairs(Tail(pairs), keys)
         ELSE <<Head(pairs)>> \o SelectPairs(Tail(pairs), keys)

\* list indexes as they appear in an error location
IdxName == <<"0", "1", "2", "3", "4", "5", "6", "7">>

Idx(i) == IdxName[i]

(***************************************************************************)
(* Characters of the strings that pattern-constrained fields take in the   *)
(* documents below (TLC's strings are atomic).                             *)
(***************************************************************************)
Chars(s) ==
    CASE s = "1.0.0" -> <<"1", ".", "0", ".", "0">>
      [] s = "1.0.12-rc1" -> <<"1", ".", "0", ".", "1", "2", "-", "r", "c", "1">>
      [] s = "1.1.0" -> <<"1", ".", "1", ".", "0">>
      [] s = "1.0.0-" -> <<"1", ".", "0", ".", "0", "-">>
      [] s = "petstore" -> <<"p", "e", "t", "s", "t", "o", "r", "e">>
      [] s = "users" -> <<"u", "s", "e", "r", "s">>
      [] s = "a" -> <<"a">>
      [] s = "b" -> <<"b">>
      [] s = "api" -> <<"a", "p", "i">>
      [] s = "api2" -> <<"a", "p", "i", "2">>
      [] s = "my_api-1" -> <<"m", "y", "_", "a", "p", "i", "-", "1">>
      [] s = "my\\api" -> <<"m", "y", "\\", "a", "p", "i">>
      [] s = "my api" -> <<"m", "y", " ", "a", "p", "i">>
      [] s = "my.api" -> <<"m", "y", ".", "a", "p", "i">>
      [] s = "" -> <<>>
      [] s = "http://api.example.com" -> <<"h", "t", "t", "p", ":", "/", "/", "a", "p", "i">>
      [] s = "https://petstore.swagger.io/v2/swagger.json" -> <<"h", "t", "t", "p", "s", ":", "/", "/", "p">>
      [] s = "/local/arazzo/users.json" -> <<"/", "l", "o", "c", "a", "l">>
      [] s = "http://api example.com" -> <<"h", "t", "t", "p", ":", "/", "/", "a", "p", "i", " ", "e">>

Digits == {"0", "1", "2", "3", "4", "5", "6", "7", "8", "9"}

Letters == {"a", "b", "c", "d", "e", "f", "g", "h", "i", "j", "k", "l", "m",
            "n", "o", "p", "q", "r", "s", "t", "u", "v", "w", "x", "y", "z"}

Whitespace == {" ", "\t", "\n"}

\* re.search(r"\s", v)
HasWhitespace(s) == \E i \in 1..Len(Chars(s)) : Chars(s)[i] \in Whitespace

\* the character class [A-Za-z0-9_\\-] of the pattern r"^[A-Za-z0-9_\\-]+$":
\* in the raw string \\ is an escaped backslash and the final - is literal
NameClass == Letters \cup Digits \cup {"_", "\\", "-"}

MatchesNamePattern(s) ==
    LET cs == Chars(s)
    IN  Len(cs) >= 1 /\ \A i \in 1..Len(cs) : cs[i] \in NameClass

\* r"^1\.0\.\d+(-.+)?$"
MatchesArazzoPattern(s) ==
    LET cs == Chars(s)
    IN  /\ Len(cs) >= 5
        /\ cs[1] = "1" /\ cs[2] = "." /\ cs[3] = "0" /\ cs[4] = "."
        /\ \E n \in 5..Len(cs) :
              /\ \A i \in 5..n : cs[i] \in Digits
              /\ \/ n = Len(cs)
                 \/ /\ n + 2 <= Len(cs)
                    /\ cs[n + 1] = "-"
                    /\ \A i \in (n + 2)..Len(cs) : cs[i] # "\n"

(***************************************************************************)
(* Validation results and pydantic's field machinery                       *)
(***************************************************************************)
Err(type, loc, ctx) == [type |-> type, loc |-> loc, ctx |-> ctx]

Ok(v) == [val |-> v, errs |-> <<>>, crash |-> FALSE]

Fail(type, loc, ctx) == [val |-> Null, errs |-> <<Err(type, loc, ctx)>>, crash |-> FALSE]

\* an exception that pydantic does not turn into an error record
Crash == [val |-> Null, errs |-> <<>>, crash |-> TRUE]

Passed(r) == ~r.crash /\ r.errs = <<>>

\* F applied to the value of x, with x evaluated once
Bind(x, F(_)) == CHOOSE y \in {F(v) : v \in {x}} : TRUE

\* populate_by_name = True: a field is read under its alias or under its name
FieldPresent(m, alias, name) == HasKey(m, alias) \/ HasKey(m, name)

FieldRaw(m, alias, name) ==
    IF HasKey(m, alias) THEN Lookup(m, alias) ELSE Lookup(m, name)

\* x: T = Field(...), as at arazzo.py line 64
Required(m, alias, name, loc, V(_, _)) ==
    IF ~FieldPresent(m, alias, name) THEN Fail("missing", loc \o <<alias>>, <<>>)
    ELSE V(FieldRaw(m, alias, name), loc \o <<alias>>)

\* x: Optional[T] = Field(None, ...), as at arazzo.py line 65
Optional(m, alias, name, loc, V(_, _)) ==
    IF ~FieldPresent(m, alias, name) THEN Ok(Null)
    ELSE IF IsNone(FieldRaw(m, alias, name)) THEN Ok(Null)
         ELSE V(FieldRaw(m, alias, name), loc \o <<alias>>)

\* extra = 'allow': the keys that name no declared field, value and key kept
\* as written, in source order
ModelExtra(m, keys) == SelectPairs(m.v, keys)

StrType(j, loc) ==
    IF j.t = "str" THEN Ok(j) ELSE Fail("string_type", loc, <<>>)

\* a str Enum: the value must be one of the members' values
EnumType(j, loc, members) ==
    IF j.t = "str" /\ j.v \in members THEN Ok(j) ELSE Fail("enum", loc, <<>>)

AnyType(j, loc) == Ok(j)

\* float / int with ge = 0 (no numeric strings occur in the documents below)
NumberGe0(j, loc, kind) ==
    IF j.t # "num" THEN Fail(kind, loc, <<>>)
    ELSE IF j.v >= 0 THEN Ok(j)
         ELSE Fail("greater_than_equal", loc, <<<<"ge", Num(0)>>>>)

\* a faulty variant of Collect below that stops at the first item that
\* failed; the property stated for C19 does not hold of it
Collect_first_failure_only(rs, val) ==
    [val |-> val,
     errs |-> IF \E i \in 1..Len(rs) : rs[i].errs # <<>>
              THEN rs[CHOOSE i \in 1..Len(rs) :
                         /\ rs[i].errs # <<>>
                         /\ \A k \in 1..(i - 1) : rs[k].errs = <<>>].errs
              ELSE <<>>,
     crash |-> \E i \in 1..Len(rs) : rs[i].crash]

\* a faulty variant of Collect below under which a list drops the items
\* that failed and goes on with the others; the property stated for C21 does
\* not hold of it
Collect_dropping_failed_items(rs, val) ==
    [val |-> IF val.t = "list" THEN List(SelectSeq(val.v, LAMBDA x : x # Null)) ELSE val,
     errs |-> <<>>,
     crash |-> \E i \in 1..Len(rs) : rs[i].crash]

\* the results of the items of a list or mapping, taken together: the errors
\* of all items are collected; an exception of another kind ends the walk
Collect(rs, val) ==
    [val |-> val,
     errs |-> Flat([i \in 1..Len(rs) |-> rs[i].errs]),
     crash |-> \E i \in 1..Len(rs) : rs[i].crash]

\* List[T] with min_length, as at arazzo.py lines 577-580
ListOf(j, loc, minLength, V(_, _)) ==
    IF j.t # "list" THEN Fail("list_type", loc, <<>>)
    ELSE IF Len(j.v) < minLength
         THEN Fail("too_short", loc, <<<<"min_length", Num(minLength)>>>>)
         ELSE Bind([i \in 1..Len(j.v) |-> V(j.v[i], loc \o <<Idx(i)>>)],
                   LAMBDA rs : Collect(rs, List([i \in 1..Len(rs) |-> rs[i].val])))

\* Dict[str, T], as at arazzo.py lines 102 and 418: the typed value keeps the
\* entries as pairs, in source order
DictOf(j, loc, V(_, _)) ==
    IF j.t # "map" THEN Fail("dict_type", loc, <<>>)
    ELSE Bind([i \in 1..Len(j.v) |-> V(j.v[i][2], loc \o <<j.v[i][1]>>)],
              LAMBDA rs : Collect(rs, Map([i \in 1..Len(rs) |-> <<j.v[i][1], rs[i].val>>])))

\* the second member of a union, tried when the first one, ra, failed: when
\* both fail the errors of both are reported
UnionSecond(ra, rb) ==
    IF rb.crash THEN Crash
    ELSE IF rb.errs = <<>> THEN rb
         ELSE [val |-> Null, errs |-> ra.errs \o rb.errs, crash |-> FALSE]

\* Union[A, B] (arazzo.py lines 219, 368, 394, 406) in smart mode: every key of the input is a field or an extra
\* of either model, so two successes tie and the leftmost one is taken; the
\* errors of a member are located under the member's name
UnionOf(j, loc, nameA, A(_, _), nameB, B(_, _)) ==
    Bind(A(j, loc \o <<nameA>>),
         LAMBDA ra : IF ra.crash THEN Crash
                     ELSE IF ra.errs = <<>> THEN ra
                          ELSE Bind(B(j, loc \o <<nameB>>),
                                    LAMBDA rb : UnionSecond(ra, rb)))

\* a model (a subclass of SpecificationExtensionsMixin, arazzo.py lines
\* 15-23): f holds the result of each field, names the fields in the order
\* of their declaration; the errors of all fields are collected, and the
\* after-validator runs on the node only when every field validated
ModelResult(f, names, Node(_), loc, After(_, _)) ==
    IF \E i \in 1..Len(names) : f[names[i]].crash THEN Crash
    ELSE IF \E i \in 1..Len(names) : f[names[i]].errs # <<>>
         THEN [val |-> Null,
               errs |-> Flat([i \in 1..Len(names) |-> f[names[i]].errs]),
               crash |-> FALSE]
         ELSE Bind(Node(f), LAMBDA node : After(node, loc))

Model(fields, names, Node(_), loc, After(_, _)) ==
    Bind(fields, LAMBDA f : ModelResult(f, names, Node, loc, After))

NoCheck(node, loc) == Ok(node)

\* a field_validator (mode after; arazzo.py lines 86-88, 373-379): runs on
\* the validated value of a field that was given; every validator of this
\* program returns None unchanged ("if v is not None")
FieldValidator(field, loc, alias, F(_, _)) ==
    Bind(field,
         LAMBDA r : IF ~Passed(r) THEN r
                    ELSE IF IsNone(r.val) THEN r
                         ELSE F(r.val, loc \o <<alias>>))

(***************************************************************************)
(* validate_unique_items and the JSON dump it compares by                  *)
(***************************************************************************)
IsBaseModel(item) == "cls" \in DOMAIN item

\* enumerate(...) positions whose hashable form was seen at an earlier one
DuplicatePositions(hs) ==
    {i \in 1..Len(hs) : \E k \in 1..(i - 1) : hs[k] = hs[i]}

DumpList(x, D(_)) ==
    IF IsNone(x) THEN Null ELSE List([i \in 1..Len(x.v) |-> D(x.v[i])])

\* model_dump_json: the declared fields in declaration order under their
\* field names, None as null, then the extras in the order of the source; a
\* mapping held in an Any-typed field keeps the order of its source keys
DumpReusableObject(o) ==
    Map(<<<<"reference", o.reference>>, <<"value", o.value>>>> \o o.model_extra)

DumpParameter(o) ==
    Map(<<<<"name", o.name>>, <<"in_", o.in_>>, <<"value", o.value>>>> \o o.model_extra)

DumpPayloadReplacement(o) ==
    Map(<<<<"target", o.target>>, <<"value", o.value>>>> \o o.model_extra)

DumpCriterionExpressionType(o) ==
    Map(<<<<"type", o.type>>, <<"version", o.version>>>> \o o.model_extra)

DumpCriterion(o) ==
    Map(<<<<"context", o.context>>, <<"condition", o.condition>>,
          <<"type", IF IsBaseModel(o.type) THEN DumpCriterionExpressionType(o.type)
                    ELSE o.type>>>> \o o.model_extra)

DumpSuccessAction(o) ==
    Map(<<<<"name", o.name>>, <<"type", o.type>>, <<"workflow_id", o.workflow_id>>,
          <<"step_id", o.step_id>>,
          <<"criteria", DumpList(o.criteria, DumpCriterion)>>>> \o o.model_extra)

DumpFailureAction(o) ==
    Map(<<<<"name", o.name>>, <<"type", o.type>>, <<"workflow_id", o.workflow_id>>,
          <<"step_id", o.step_id>>, <<"retry_after", o.retry_after>>,
          <<"retry_limit", o.retry_limit>>,
          <<"criteria", DumpList(o.criteria, DumpCriterion)>>>> \o o.model_extra)

model_dump_json(item) ==
    CASE item.cls = "ReusableObject" -> DumpReusableObject(item)
      [] item.cls = "Parameter" -> DumpParameter(item)
      [] item.cls = "PayloadReplacement" -> DumpPayloadReplacement(item)
      [] item.cls = "Criterion" -> DumpCriterion(item)
      [] item.cls = "SuccessAction" -> DumpSuccessAction(item)
      [] item.cls = "FailureAction" -> DumpFailureAction(item)

\* hash(item): a pydantic model that is not frozen defines __eq__ and no
\* __hash__, so set(duplicates_found) raises TypeError when it holds a model
Hashable(item) == ~IsBaseModel(item)

\* the hashable form of every item: the JSON dump of a model, a str itself
HashableItems(items) ==
    [i \in 1..Len(items) |->
        IF IsBaseModel(items[i]) THEN model_dump_json(items[i]) ELSE items[i]]

\* "if duplicates_found:" and what follows it; dups are the positions of
\* the items appended to duplicates_found
RaiseDuplicates(v, loc, dups) ==
    IF dups = {} THEN Ok(v)
    ELSE IF \E i \in dups : ~Hashable(v.v[i]) THEN Crash
         ELSE Fail("value_error", loc,
                   <<<<"duplicates", [t |-> "set", v |-> {v.v[i].v : i \in dups}]>>>>)

\* v: the typed list; the result is the list itself, a ValueError that names
\* the distinct duplicates (sorted, so as a set), or a TypeError
validate_unique_items(v, loc) ==
    Bind(HashableItems(v.v),
         LAMBDA hs : Bind(DuplicatePositions(hs),
                          LAMBDA dups : RaiseDuplicates(v, loc, dups)))

(***************************************************************************)
(* The model classes, leaves first                                         *)
(***************************************************************************)
\* a faulty variant of the class below whose version may be left out; the
\* property stated for C13 does not hold of it
Info_with_optional_version(j, loc) ==
    IF j.t # "map" THEN Fail("model_type", loc, <<>>)
    ELSE Model([title |-> Required(j, "title", "title", loc, StrType),
                summary |-> Optional(j, "summary", "summary", loc, StrType),
                description |-> Optional(j, "description", "description", loc, StrType),
                version |-> Optional(j, "version", "version", loc, StrType)],
               <<"title", "summary", "description", "version">>,
               LAMBDA f : [cls |-> "Info", title |-> f.title.val,
                           summary |-> f.summary.val,
                           description |-> f.description.val,
                           version |-> f.version.val,
                           model_extra |->
                               ModelExtra(j, {"title", "summary", "description",
                                              "version"})],
               loc, NoCheck)

Info(j, loc) ==
    IF j.t # "map" THEN Fail("model_type", loc, <<>>)
    ELSE Model([title |-> Required(j, "title", "title", loc, StrType),
                summary |-> Optional(j, "summary", "summary", loc, StrType),
                description |-> Optional(j, "description", "description", loc, StrType),
                version |-> Required(j, "version", "version", loc, StrType)],
               <<"title", "summary", "description", "version">>,
               LAMBDA f : [cls |-> "Info", title |-> f.title.val,
                           summary |-> f.summary.val,
                           description |-> f.description.val,
                           version |-> f.version.val,
                           model_extra |->
                               ModelExtra(j, {"title", "summary", "description",
                                              "version"})],
               loc, NoCheck)

SourceType == {"arazzo", "openapi"}

SourceDescriptionName(j, loc) ==
    IF j.t # "str" THEN Fail("string_type", loc, <<>>)
    ELSE IF MatchesNamePattern(j.v) THEN Ok(j)
         ELSE Fail("string_pattern_mismatch", loc, <<>>)

validate_uri_reference(v, loc) ==
    IF HasWhitespace(v.v) THEN Fail("value_error", loc, <<>>) ELSE Ok(v)

SourceDescription(j, loc) ==
    IF j.t # "map" THEN Fail("model_type", loc, <<>>)
    ELSE Model([name |-> Required(j, "name", "name", loc, SourceDescriptionName),
                url |-> FieldValidator(Required(j, "url", "url", loc, StrType),
                                       loc, "url", validate_uri_reference),
                type |-> Optional(j, "type", "type", loc,
                                  LAMBDA x, l : EnumType(x, l, SourceType))],
               <<"name", "url", "type">>,
               LAMBDA f : [cls |-> "SourceDescription", name |-> f.name.val,
                           url |-> f.url.val, type |-> f.type.val,
                           model_extra |-> ModelExtra(j, {"name", "url", "type"})],
               loc, NoCheck)

\* Schema: RootModel with root: Dict[str, Any]
Schema(j, loc) == DictOf(j, loc, AnyType)

ReusableObject(j, loc) ==
    IF j.t # "map" THEN Fail("model_type", loc, <<>>)
    ELSE Model([reference |-> Required(j, "reference", "reference", loc, StrType),
                value |-> Optional(j, "value", "value", loc, AnyType)],
               <<"reference", "value">>,
               LAMBDA f : [cls |-> "ReusableObject", reference |-> f.reference.val,
                           value |-> f.value.val,
                           model_extra |-> ModelExtra(j, {"reference", "value"})],
               loc, NoCheck)

InLocation == {"path", "query", "header", "cookie"}

Parameter(j, loc) ==
    IF j.t # "map" THEN Fail("model_type", loc, <<>>)
    ELSE Model([name |-> Required(j, "name", "name", loc, StrType),
                in_ |-> Optional(j, "in", "in_", loc,
                                 LAMBDA x, l : EnumType(x, l, InLocation)),
                value |-> Required(j, "value", "value", loc, AnyType)],
               <<"name", "in_", "value">>,
               LAMBDA f : [cls |-> "Parameter", name |-> f.name.val,
                           in_ |-> f.in_.val, value |-> f.value.val,
                           model_extra |-> ModelExtra(j, {"name", "in", "in_", "value"})],
               loc, NoCheck)

PayloadReplacement(j, loc) ==
    IF j.t # "map" THEN Fail("model_type", loc, <<>>)
    ELSE Model([target |-> Required(j, "target", "target", loc, StrType),
                value |-> Required(j, "value", "value", loc, StrType)],
               <<"target", "value">>,
               LAMBDA f : [cls |-> "PayloadReplacement", target |-> f.target.val,
                           value |-> f.value.val,
                           model_extra |-> ModelExtra(j, {"target", "value"})],
               loc, NoCheck)

RequestBody(j, loc) ==
    IF j.t # "map" THEN Fail("model_type", loc, <<>>)
    ELSE Model([content_type |-> Optional(j, "contentType", "content_type", loc, StrType),
                payload |-> Optional(j, "payload", "payload", loc, AnyType),
                replacements |->
                    FieldValidator(
                        Optional(j, "replacements", "replacements", loc,
                                 LAMBDA x, l : ListOf(x, l, 0, PayloadReplacement)),
                        loc, "replacements", validate_unique_items)],
               <<"content_type", "payload", "replacements">>,
               LAMBDA f : [cls |-> "RequestBody", content_type |-> f.content_type.val,
                           payload |-> f.payload.val,
                           replacements |-> f.replacements.val,
                           model_extra |->
                               ModelExtra(j, {"contentType", "content_type", "payload",
                                              "replacements"})],
               loc, NoCheck)

ExpressionType == {"jsonpath", "xpath"}

JsonPathVersion == "draft-goessner-dispatch-jsonpath-00"

XPathVersion == {"xpath-10", "xpath-20", "xpath-30"}

\* a faulty variant of the validator below, without its second rule (the
\* versions of xpath); the property stated for C12 does not hold of it
check_conditional_version_of_jsonpath_only(self, loc) ==
    IF self.type.v = "jsonpath" /\ self.version.v # JsonPathVersion
    THEN Fail("invalid_jsonpath_version", loc,
              <<<<"required_version", Str(JsonPathVersion)>>>>)
    ELSE Ok(self)

check_conditional_version(self, loc) ==
    IF self.type.v = "jsonpath" /\ self.version.v # JsonPathVersion
    THEN Fail("invalid_jsonpath_version", loc,
              <<<<"required_version", Str(JsonPathVersion)>>>>)
    ELSE IF self.type.v = "xpath" /\ self.version.v \notin XPathVersion
         THEN Fail("invalid_xpath_version", loc, <<>>)
         ELSE Ok(self)

CriterionExpressionType(j, loc) ==
    IF j.t # "map" THEN Fail("model_type", loc, <<>>)
    ELSE Model([type |-> Required(j, "type", "type", loc,
                                  LAMBDA x, l : EnumType(x, l, ExpressionType)),
                version |-> Required(j, "version", "version", loc, StrType)],
               <<"type", "version">>,
               LAMBDA f : [cls |-> "CriterionExpressionType", type |-> f.type.val,
                           version |-> f.version.val,
                           model_extra |-> ModelExtra(j, {"type", "version"})],
               loc, check_conditional_version)

ConditionType == {"simple", "regex", "jsonpath", "xpath"}

\* type: Union[ConditionType, CriterionExpressionType] = ConditionType.SIMPLE
CriterionType(m, loc) ==
    IF ~FieldPresent(m, "type", "type") THEN Ok(Str("simple"))
    ELSE UnionOf(FieldRaw(m, "type", "type"), loc \o <<"type">>,
                 "ConditionType", LAMBDA x, l : EnumType(x, l, ConditionType),
                 "CriterionExpressionType", CriterionExpressionType)

\* a faulty variant of the validator below that looks at the plain tags
\* only; the property stated for C11 does not hold of it
check_dependent_required_of_tags_only(self, loc) ==
    IF /\ ~IsBaseModel(self.type) /\ self.type.v \in {"jsonpath", "xpath"}
       /\ IsNone(self.context)
    THEN Fail("missing_context_for_expression_type", loc, <<<<"type_value", self.type>>>>)
    ELSE Ok(self)

check_dependent_required(self, loc) ==
    IF /\ \/ (~IsBaseModel(self.type) /\ self.type.v \in {"jsonpath", "xpath"})
          \/ IsBaseModel(self.type)
       /\ IsNone(self.context)
    THEN Fail("missing_context_for_expression_type", loc,
              <<<<"type_value", IF IsBaseModel(self.type) THEN self.type.type
                                ELSE self.type>>>>)
    ELSE Ok(self)

Criterion(j, loc) ==
    IF j.t # "map" THEN Fail("model_type", loc, <<>>)
    ELSE Model([context |-> Optional(j, "context", "context", loc, StrType),
                condition |-> Required(j, "condition", "condition", loc, StrType),
                type |-> CriterionType(j, loc)],
               <<"context", "condition", "type">>,
               LAMBDA f : [cls |-> "Criterion", context |-> f.context.val,
                           condition |-> f.condition.val, type |-> f.type.val,
                           model_extra |-> ModelExtra(j, {"context", "condition", "type"})],
               loc, check_dependent_required)

SuccessActionType == {"end", "goto"}

check_conditional_goto(self, loc) ==
    IF self.type.v = "goto"
    THEN IF ~(Truthy(self.workflow_id) \/ Truthy(self.step_id))
         THEN Fail("goto_missing_target", loc, <<<<"type", self.type>>>>)
         ELSE IF Truthy(self.workflow_id) /\ Truthy(self.step_id)
              THEN Fail("goto_exclusive_target", loc, <<<<"type", self.type>>>>)
              ELSE Ok(self)
    ELSE Ok(self)

SuccessAction(j, loc) ==
    IF j.t # "map" THEN Fail("model_type", loc, <<>>)
    ELSE Model([name |-> Required(j, "name", "name", loc, StrType),
                type |-> Required(j, "type", "type", loc,
                                  LAMBDA x, l : EnumType(x, l, SuccessActionType)),
                workflow_id |-> Optional(j, "workflowId", "workflow_id", loc, StrType),
                step_id |-> Optional(j, "stepId", "step_id", loc, StrType),
                criteria |->
                    FieldValidator(
                        Optional(j, "criteria", "criteria", loc,
                                 LAMBDA x, l : ListOf(x, l, 1, Criterion)),
                        loc, "criteria", validate_unique_items)],
               <<"name", "type", "workflow_id", "step_id", "criteria">>,
               LAMBDA f : [cls |-> "SuccessAction", name |-> f.name.val,
                           type |-> f.type.val, workflow_id |-> f.workflow_id.val,
                           step_id |-> f.step_id.val, criteria |-> f.criteria.val,
                           model_extra |->
                               ModelExtra(j, {"name", "type", "workflowId",
                                              "workflow_id", "stepId", "step_id",
                                              "criteria"})],
               loc, check_conditional_goto)

FailureActionType == {"end", "goto", "retry"}

\* a faulty variant of the validator below, without its last rule (retry
\* requires retryAfter); the invariant stated for C9 does not hold of it
check_conditional_goto_retry_without_retry_after(self, loc) ==
    IF /\ self.type.v \in {"goto", "retry"}
       /\ ~(Truthy(self.workflow_id) \/ Truthy(self.step_id))
    THEN Fail("goto_retry_missing_target", loc, <<<<"type", self.type>>>>)
    ELSE IF /\ self.type.v \in {"goto", "retry"}
            /\ Truthy(self.workflow_id) /\ Truthy(self.step_id)
         THEN Fail("goto_retry_exclusive_target", loc, <<<<"type", self.type>>>>)
         ELSE Ok(self)

check_conditional_goto_retry(self, loc) ==
    IF /\ self.type.v \in {"goto", "retry"}
       /\ ~(Truthy(self.workflow_id) \/ Truthy(self.step_id))
    THEN Fail("goto_retry_missing_target", loc, <<<<"type", self.type>>>>)
    ELSE IF /\ self.type.v \in {"goto", "retry"}
            /\ Truthy(self.workflow_id) /\ Truthy(self.step_id)
         THEN Fail("goto_retry_exclusive_target", loc, <<<<"type", self.type>>>>)
         ELSE IF self.type.v = "retry" /\ IsNone(self.retry_after)
              THEN Fail("retry_missing_retry_after", loc, <<<<"type", self.type>>>>)
              ELSE Ok(self)

FailureAction(j, loc) ==
    IF j.t # "map" THEN Fail("model_type", loc, <<>>)
    ELSE Model([name |-> Required(j, "name", "name", loc, StrType),
                type |-> Required(j, "type", "type", loc,
                                  LAMBDA x, l : EnumType(x, l, FailureActionType)),
                workflow_id |-> Optional(j, "workflowId", "workflow_id", loc, StrType),
                step_id |-> Optional(j, "stepId", "step_id", loc, StrType),
                retry_after |-> Optional(j, "retryAfter", "retry_after", loc,
                                         LAMBDA x, l : NumberGe0(x, l, "float_type")),
                retry_limit |-> Optional(j, "retryLimit", "retry_limit", loc,
                                         LAMBDA x, l : NumberGe0(x, l, "int_type")),
                criteria |->
                    FieldValidator(
                        Optional(j, "criteria", "criteria", loc,
                                 LAMBDA x, l : ListOf(x, l, 0, Criterion)),
                        loc, "criteria", validate_unique_items)],
               <<"name", "type", "workflow_id", "step_id", "retry_after",
                 "retry_limit", "criteria">>,
               LAMBDA f : [cls |-> "FailureAction", name |-> f.name.val,
                           type |-> f.type.val, workflow_id |-> f.workflow_id.val,
                           step_id |-> f.step_id.val,
                           retry_after |-> f.retry_after.val,
                           retry_limit |-> f.retry_limit.val,
                           criteria |-> f.criteria.val,
                           model_extra |->
                               ModelExtra(j, {"name", "type", "workflowId",
                                              "workflow_id", "stepId", "step_id",
                                              "retryAfter", "retry_after", "retryLimit",
                                              "retry_limit", "criteria"})],
               loc, check_conditional_goto_retry)

\* List[Union['Parameter', 'ReusableObject']]
ParameterList(j, loc) ==
    ListOf(j, loc, 0,
           LAMBDA x, l : UnionOf(x, l, "Parameter", Parameter,
                                 "ReusableObject", ReusableObject))

\* List[Union['SuccessAction', 'ReusableObject']]
SuccessActionList(j, loc) ==
    ListOf(j, loc, 0,
           LAMBDA x, l : UnionOf(x, l, "SuccessAction", SuccessAction,
                                 "ReusableObject", ReusableObject))

\* List[Union['FailureAction', 'ReusableObject']]
FailureActionList(j, loc) ==
    ListOf(j, loc, 0,
           LAMBDA x, l : UnionOf(x, l, "FailureAction", FailureAction,
                                 "ReusableObject", ReusableObject))

\* a faulty variant of OffendingParameters below whose isinstance tests know
\* the class Parameter only; the property stated for C22 does not hold of it
OffendingParameters_knowing_parameter_only(self, operation) ==
    {i \in 1..Len(self.parameters.v) :
        IF self.parameters.v[i].cls = "Parameter"
        THEN operation /\ IsNone(self.parameters.v[i].in_)
        ELSE TRUE}

\* the indexes at which the loop over enumerate(parameters) would raise: in
\* an operation-based step a Parameter without "in" or an entry of another
\* class, in a workflow-based step an entry of another class
OffendingParameters(self, operation) ==
    {i \in 1..Len(self.parameters.v) :
        IF operation
        THEN IF self.parameters.v[i].cls = "Parameter"
             THEN IsNone(self.parameters.v[i].in_)
             ELSE self.parameters.v[i].cls # "ReusableObject"
        ELSE self.parameters.v[i].cls \notin {"Parameter", "ReusableObject"}}

\* the loop raises at the first of them
FirstIndex(S) == CHOOSE i \in S : \A k \in S : i <= k

ParameterError(self, loc, operation, i) ==
    Fail(IF ~operation THEN "invalid_parameter_type_for_workflow"
         ELSE IF self.parameters.v[i].cls = "Parameter"
              THEN "parameter_in_required_for_operation"
              ELSE "invalid_parameter_type_for_operation",
         loc, <<<<"parameter_index", Num(i - 1)>>>>)

CheckParameters(self, loc, operation) ==
    IF OffendingParameters(self, operation) = {} THEN Ok(self)
    ELSE ParameterError(self, loc, operation,
                        FirstIndex(OffendingParameters(self, operation)))

PresentTargets(self) ==
    {f \in {"operation_id", "operation_path", "workflow_id"} : ~IsNone(self[f])}

check_conditional_step_target(self, loc) ==
    IF PresentTargets(self) = {} THEN Fail("step_missing_target_type", loc, <<>>)
    ELSE IF Cardinality(PresentTargets(self)) > 1
         THEN Fail("step_exclusive_target_type", loc, <<>>)
         ELSE IF IsNone(self.parameters) THEN Ok(self)
         ELSE IF self.parameters.v = <<>> THEN Ok(self)
         ELSE IF Truthy(self.operation_id) \/ Truthy(self.operation_path)
              THEN CheckParameters(self, loc, TRUE)
              ELSE IF Truthy(self.workflow_id)
                   THEN CheckParameters(self, loc, FALSE)
                   ELSE Ok(self)

Step(j, loc) ==
    IF j.t # "map" THEN Fail("model_type", loc, <<>>)
    ELSE Model([step_id |-> Required(j, "stepId", "step_id", loc, StrType),
                description |-> Optional(j, "description", "description", loc, StrType),
                operation_id |-> Optional(j, "operationId", "operation_id", loc, StrType),
                operation_path |->
                    Optional(j, "operationPath", "operation_path", loc, StrType),
                workflow_id |-> Optional(j, "workflowId", "workflow_id", loc, StrType),
                parameters |->
                    FieldValidator(
                        Optional(j, "parameters", "parameters", loc, ParameterList),
                        loc, "parameters", validate_unique_items),
                request_body |->
                    Optional(j, "requestBody", "request_body", loc, RequestBody),
                success_criteria |->
                    FieldValidator(
                        Optional(j, "successCriteria", "success_criteria", loc,
                                 LAMBDA x, l : ListOf(x, l, 1, Criterion)),
                        loc, "successCriteria", validate_unique_items),
                on_success |->
                    FieldValidator(
                        Optional(j, "onSuccess", "on_success", loc, SuccessActionList),
                        loc, "onSuccess", validate_unique_items),
                on_failure |->
                    FieldValidator(
                        Optional(j, "onFailure", "on_failure", loc, FailureActionList),
                        loc, "onFailure", validate_unique_items),
                outputs |-> Optional(j, "outputs", "outputs", loc,
                                     LAMBDA x, l : DictOf(x, l, StrType))],
               <<"step_id", "description", "operation_id", "operation_path",
                 "workflow_id", "parameters", "request_body", "success_criteria",
                 "on_success", "on_failure", "outputs">>,
               LAMBDA f : [cls |-> "Step", step_id |-> f.step_id.val,
                           description |-> f.description.val,
                           operation_id |-> f.operation_id.val,
                           operation_path |-> f.operation_path.val,
                           workflow_id |-> f.workflow_id.val,
                           parameters |-> f.parameters.val,
                           request_body |-> f.request_body.val,
                           success_criteria |-> f.success_criteria.val,
                           on_success |-> f.on_success.val,
                           on_failure |-> f.on_failure.val,
                           outputs |-> f.outputs.val,
                           model_extra |->
                               ModelExtra(j, {"stepId", "step_id", "description",
                                              "operationId", "operation_id",
                                              "operationPath", "operation_path",
                                              "workflowId", "workflow_id", "parameters",
                                              "requestBody", "request_body",
                                              "successCriteria", "success_criteria",
                                              "onSuccess", "on_success", "onFailure",
                                              "on_failure", "outputs"})],
               loc, check_conditional_step_target)

(***************************************************************************)
(* Identifier-keyed uniqueness.  list(set(duplicate_ids)) lists the        *)
(* distinct duplicates in the iteration order of a set of str, which       *)
(* depends on the interpreter's per-process string hash seed: order is the *)
(* seed's order of the identifiers.                                        *)
(***************************************************************************)
IdUniverse == {"a", "b"}

HashOrders ==
    {o \in [1..Cardinality(IdUniverse) -> IdUniverse] :
        \A i, k \in DOMAIN o : i # k => o[i] # o[k]}

RECURSIVE SetToSeq(_)
SetToSeq(S) ==
    IF S = {} THEN <<>>
    ELSE LET x == CHOOSE y \in S : TRUE IN <<x>> \o SetToSeq(S \ {x})

\* list(set(ids)): the identifiers of the universe in the seed's order; an
\* identifier outside it occurs in the documents below only as a single
\* duplicate, whose listing has one order
ListOfSet(S, order) ==
    SelectSeq(order, LAMBDA x : x \in S) \o SetToSeq(S \ IdUniverse)

DuplicateIds(ids) == {ids[i] : i \in DuplicatePositions(ids)}

\* the common body of validate_steps_uniqueness,
\* validate_source_descriptions_uniqueness and validate_workflows_uniqueness
UniqueIds(v, loc, ids, order) ==
    IF Cardinality({ids[i] : i \in 1..Len(ids)}) # Len(ids)
    THEN Fail("value_error", loc,
              <<<<"duplicates",
                  [t |-> "list", v |-> ListOfSet(DuplicateIds(ids), order)]>>>>)
    ELSE Ok(v)

validate_steps_uniqueness(v, loc, order) ==
    Bind([i \in 1..Len(v.v) |-> v.v[i].step_id.v],
         LAMBDA step_ids : UniqueIds(v, loc, step_ids, order))

Workflow(j, loc, order) ==
    IF j.t # "map" THEN Fail("model_type", loc, <<>>)
    ELSE Model([workflow_id |-> Required(j, "workflowId", "workflow_id", loc, StrType),
                summary |-> Optional(j, "summary", "summary", loc, StrType),
                description |-> Optional(j, "description", "description", loc, StrType),
                inputs |-> Optional(j, "inputs", "inputs", loc, Schema),
                depends_on |->
                    FieldValidator(
                        Optional(j, "dependsOn", "depends_on", loc,
                                 LAMBDA x, l : ListOf(x, l, 0, StrType)),
                        loc, "dependsOn", validate_unique_items),
                steps |->
                    FieldValidator(
                        Required(j, "steps", "steps", loc,
                                 LAMBDA x, l : ListOf(x, l, 1, Step)),
                        loc, "steps",
                        LAMBDA v, l : validate_steps_uniqueness(v, l, order)),
                success_actions |->
                    FieldValidator(
                        Optional(j, "successActions", "success_actions", loc,
                                 SuccessActionList),
                        loc, "successActions", validate_unique_items),
                failure_actions |->
                    FieldValidator(
                        Optional(j, "failureActions", "failure_actions", loc,
                                 FailureActionList),
                        loc, "failureActions", validate_unique_items),
                outputs |-> Optional(j, "outputs", "outputs", loc,
                                     LAMBDA x, l : DictOf(x, l, StrType)),
                parameters |->
                    FieldValidator(
                        Optional(j, "parameters", "parameters", loc, ParameterList),
                        loc, "parameters", validate_unique_items)],
               <<"workflow_id", "summary", "description", "inputs", "depends_on",
                 "steps", "success_actions", "failure_actions", "outputs",
                 "parameters">>,
               LAMBDA f : [cls |-> "Workflow", workflow_id |-> f.workflow_id.val,
                           summary |-> f.summary.val,
                           description |-> f.description.val,
                           inputs |-> f.inputs.val, depends_on |-> f.depends_on.val,
                           steps |-> f.steps.val,
                           success_actions |-> f.success_actions.val,
                           failure_actions |-> f.failure_actions.val,
                           outputs |-> f.outputs.val, parameters |-> f.parameters.val,
                           model_extra |->
                               ModelExtra(j, {"workflowId", "workflow_id", "summary",
                                              "description", "inputs", "dependsOn",
                                              "depends_on", "steps", "successActions",
                                              "success_actions", "failureActions",
                                              "failure_actions", "outputs",
                                              "parameters"})],
               loc, NoCheck)

Components(j, loc) ==
    IF j.t # "map" THEN Fail("model_type", loc, <<>>)
    ELSE Model([inputs |-> Optional(j, "inputs", "inputs", loc,
                                    LAMBDA x, l : DictOf(x, l, Schema)),
                parameters |-> Optional(j, "parameters", "parameters", loc,
                                        LAMBDA x, l : DictOf(x, l, Parameter)),
                success_actions |->
                    Optional(j, "successActions", "success_actions", loc,
                             LAMBDA x, l : DictOf(x, l, SuccessAction)),
                failure_actions |->
                    Optional(j, "failureActions", "failure_actions", loc,
                             LAMBDA x, l : DictOf(x, l, FailureAction))],
               <<"inputs", "parameters", "success_actions", "failure_actions">>,
               LAMBDA f : [cls |-> "Components", inputs |-> f.inputs.val,
                           parameters |-> f.parameters.val,
                           success_actions |-> f.success_actions.val,
                           failure_actions |-> f.failure_actions.val,
                           model_extra |->
                               ModelExtra(j, {"inputs", "parameters", "successActions",
                                              "success_actions", "failureActions",
                                              "failure_actions"})],
               loc, NoCheck)

ArazzoVersion(j, loc) ==
    IF j.t # "str" THEN Fail("string_type", loc, <<>>)
    ELSE IF MatchesArazzoPattern(j.v) THEN Ok(j)
         ELSE Fail("string_pattern_mismatch", loc, <<>>)

validate_source_descriptions_uniqueness(v, loc, order) ==
    Bind([i \in 1..Len(v.v) |-> v.v[i].name.v],
         LAMBDA names : UniqueIds(v, loc, names, order))

validate_workflows_uniqueness(v, loc, order) ==
    Bind([i \in 1..Len(v.v) |-> v.v[i].workflow_id.v],
         LAMBDA workflow_ids : UniqueIds(v, loc, workflow_ids, order))

ArazzoSpecification(j, loc, order) ==
    IF j.t # "map" THEN Fail("model_type", loc, <<>>)
    ELSE Model([arazzo |-> Required(j, "arazzo", "arazzo", loc, ArazzoVersion),
                info |-> Required(j, "info", "info", loc, Info),
                source_descriptions |->
                    FieldValidator(
                        Required(j, "sourceDescriptions", "source_descriptions", loc,
                                 LAMBDA x, l : ListOf(x, l, 1, SourceDescription)),
                        loc, "sourceDescriptions",
                        LAMBDA v, l :
                            validate_source_descriptions_uniqueness(v, l, order)),
                workflows |->
                    FieldValidator(
                        Required(j, "workflows", "workflows", loc,
                                 LAMBDA x, l :
                                     ListOf(x, l, 1, LAMBDA y, m : Workflow(y, m, order))),
                        loc, "workflows",
                        LAMBDA v, l : validate_workflows_uniqueness(v, l, order)),
                components |-> Optional(j, "components", "components", loc, Components)],
               <<"arazzo", "info", "source_descriptions", "workflows", "components">>,
               LAMBDA f : [cls |-> "ArazzoSpecification", arazzo |-> f.arazzo.val,
                           info |-> f.info.val,
                           source_descriptions |-> f.source_descriptions.val,
                           workflows |-> f.workflows.val,
                           components |-> f.components.val,
                           model_extra |->
                               ModelExtra(j, {"arazzo", "info", "sourceDescriptions",
                                              "source_descriptions", "workflows",
                                              "components"})],
               loc, NoCheck)

\* how a call ended: with the typed Document, with a ValidationError and its
\* error records, or with an exception of another kind leaving the call
Outcome(r) ==
    IF r.crash THEN [kind |-> "TypeError"]
    ELSE IF r.errs # <<>> THEN [kind |-> "ValidationError", errors |-> r.errs]
         ELSE [kind |-> "Document", doc |-> r.val]

validate_arazzo_data(d, order) ==
    Bind(ArazzoSpecification(d, <<>>, order), Outcome)

(***************************************************************************)
(* The documents of the demo driver (src/main.py)                          *)
(***************************************************************************)
valid_arazzo_data ==
    Map(<<
      <<"arazzo", Str("1.0.0")>>,
      <<"info", Map(<<<<"title", Str("Example Arazzo Document")>>,
                      <<"version", Str("1.0.0")>>,
                      <<"summary", Str("This is a summary of the document.")>>>>)>>,
      <<"sourceDescriptions", List(<<
          Map(<<<<"name", Str("petstore")>>,
                <<"url", Str("https://petstore.swagger.io/v2/swagger.json")>>,
                <<"type", Str("openapi")>>>>),
          Map(<<<<"name", Str("users")>>,
                <<"url", Str("/local/arazzo/users.json")>>,
                <<"type", Str("arazzo")>>>>)>>)>>,
      <<"workflows", List(<<
          Map(<<
            <<"workflowId", Str("createPetWorkflow")>>,
            <<"summary", Str("Workflow to add a new pet to the store.")>>,
            <<"inputs", Map(<<
                <<"type", Str("object")>>,
                <<"properties", Map(<<
                    <<"name", Map(<<<<"type", Str("string")>>>>)>>,
                    <<"tag", Map(<<<<"type", Str("string")>>>>)>>>>)>>,
                <<"required", List(<<Str("name")>>)>>>>)>>,
            <<"steps", List(<<
                Map(<<
                  <<"stepId", Str("addPet")>>,
                  <<"description", Str("Call to add a pet operation")>>,
                  <<"operationId", Str("addPet")>>,
                  <<"parameters", List(<<
                      Map(<<<<"name", Str("petName")>>,
                            <<"value", Str("$.inputs.name")>>>>)>>)>>,
                  <<"successCriteria", List(<<
                      Map(<<<<"condition", Str("$.response.statusCode == 200")>>>>)>>)>>,
                  <<"onSuccess", List(<<
                      Map(<<<<"name", Str("logSuccess")>>, <<"type", Str("end")>>>>)>>)>>>>),
                Map(<<
                  <<"stepId", Str("getPetById")>>,
                  <<"description", Str("Call to get pet operation")>>,
                  <<"operationPath", Str("petstore#/paths/~1pet~1{petId}/get")>>,
                  <<"parameters", List(<<
                      Map(<<<<"name", Str("petId")>>,
                            <<"in", Str("path")>>,
                            <<"value", Str("$.steps.addPet.outputs.id")>>>>)>>)>>,
                  <<"successCriteria", List(<<
                      Map(<<<<"context", Str("$.response.body")>>,
                            <<"condition", Str("name == 'Buddy'")>>,
                            <<"type", Map(<<
                                <<"type", Str("jsonpath")>>,
                                <<"version", Str("draft-goessner-dispatch-jsonpath-00")>>>>)>>
                          >>)>>)>>>>)>>)>>,
            <<"outputs", Map(<<<<"petId", Str("$.steps.addPet.outputs.id")>>>>)>>>>),
          Map(<<
            <<"workflowId", Str("userProfileFlow")>>,
            <<"summary", Str("Workflow to fetch a user profile.")>>,
            <<"steps", List(<<
                Map(<<<<"stepId", Str("getUser")>>,
                      <<"workflowId", Str("getUserDetailsWorkflow")>>>>),
                Map(<<<<"stepId", Str("updateUser")>>,
                      <<"workflowId", Str("updateUserDetailsWorkflow")>>,
                      <<"parameters", List(<<
                          Map(<<<<"name", Str("userId")>>, <<"value", Str("123")>>>>),
                          Map(<<<<"reference", Str("#/components/parameters/emailParam")>>,
                                <<"value", Str("new@example.com")>>>>)>>)>>>>)>>)>>>>)>>)>>,
      <<"components", Map(<<
          <<"parameters", Map(<<
              <<"emailParam", Map(<<<<"name", Str("email")>>,
                                    <<"in", Str("query")>>,
                                    <<"value", Str("default@example.com")>>>>)>>>>)>>,
          <<"successActions", Map(<<
              <<"logSuccess", Map(<<<<"name", Str("logSuccess")>>,
                                    <<"type", Str("end")>>>>)>>>>)>>>>)>>,
      <<"x-custom-extension", Str("some-value")>>>>)

\* the head shared by the driver's invalid documents
DemoHead(title) ==
    <<<<"arazzo", Str("1.0.0")>>,
      <<"info", Map(<<<<"title", Str(title)>>, <<"version", Str("1.0.0")>>>>)>>,
      <<"sourceDescriptions", List(<<
          Map(<<<<"name", Str("api")>>, <<"url", Str("http://api.example.com")>>>>)>>)>>>>

DemoStep(stepId, operationId) ==
    Map(<<<<"stepId", Str(stepId)>>, <<"operationId", Str(operationId)>>>>)

DemoWorkflow(workflowId, steps) ==
    Map(<<<<"workflowId", Str(workflowId)>>, <<"steps", List(steps)>>>>)

invalid_data_missing_info_version ==
    Map(<<<<"arazzo", Str("1.0.0")>>,
          <<"info", Map(<<<<"title", Str("Invalid Arazzo Doc")>>>>)>>,
          <<"sourceDescriptions", List(<<
              Map(<<<<"name", Str("api")>>, <<"url", Str("http://api.example.com")>>>>)>>)>>,
          <<"workflows", List(<<DemoWorkflow("simple", <<DemoStep("s1", "op1")>>)>>)>>>>)

invalid_step_data ==
    Map(DemoHead("Invalid Step Test") \o
        <<<<"workflows", List(<<
              DemoWorkflow("broken_step", <<Map(<<<<"stepId", Str("s1")>>>>)>>)>>)>>>>)

invalid_step_param_data ==
    Map(DemoHead("Invalid Step Param Test") \o
        <<<<"workflows", List(<<
              DemoWorkflow("broken_param_step", <<
                  Map(<<<<"stepId", Str("s1")>>,
                        <<"operationId", Str("getSomething")>>,
                        <<"parameters", List(<<
                            Map(<<<<"name", Str("myParam")>>,
                                  <<"value", Str("abc")>>>>)>>)>>>>)>>)>>)>>>>)

invalid_duplicate_workflow_id ==
    Map(DemoHead("Duplicate Workflow Test") \o
        <<<<"workflows", List(<<
              DemoWorkflow("workflow1", <<DemoStep("s1", "op1")>>),
              DemoWorkflow("workflow1", <<DemoStep("s2", "op2")>>)>>)>>>>)

invalid_duplicate_step_id ==
    Map(DemoHead("Duplicate Step Test") \o
        <<<<"workflows", List(<<
              DemoWorkflow("workflow_with_dup_steps",
                           <<DemoStep("stepA", "opA"), DemoStep("stepA", "opB")>>)>>)>>>>)

DemoDocuments ==
    {valid_arazzo_data, invalid_data_missing_info_version, invalid_step_data,
     invalid_step_param_data, invalid_duplicate_workflow_id, invalid_duplicate_step_id}

(***************************************************************************)
(* The documents validated: the driver's own, and families that vary      *)
(* one part of a document that is valid otherwise                          *)
(***************************************************************************)
MaxParameters == 2

MaxRetryAfter == 1

MaxIds == 4

\* a key that the source mapping does not hold
Absent == [t |-> "absent", v |-> "absent"]

Entry(k, x) == IF x.t = "absent" THEN <<>> ELSE <<<<k, x>>>>

\* the sequences over S of length lo..hi
SeqsOf(S, lo, hi) == UNION {[1..n -> S] : n \in lo..hi}

Document(workflows, components) ==
    Map(DemoHead("t") \o <<<<"workflows", List(workflows)>>>> \o Entry("components", components))

ValueAB == Map(<<<<"a", Num(1)>>, <<"b", Num(2)>>>>)

ValueBA == Map(<<<<"b", Num(2)>>, <<"a", Num(1)>>>>)

ParameterEntries ==
    {Map(<<<<"name", Str("p")>>, <<"in", Str("query")>>, <<"value", Str("v")>>>>),
     Map(<<<<"name", Str("p")>>, <<"value", Str("v")>>>>),
     Map(<<<<"name", Str("q")>>, <<"value", ValueAB>>>>),
     Map(<<<<"name", Str("q")>>, <<"value", ValueBA>>>>),
     Map(<<<<"name", Str("r")>>, <<"in", Str("path")>>, <<"value", Str("v")>>,
           <<"x-a", Num(1)>>, <<"x-b", Num(2)>>>>),
     Map(<<<<"name", Str("r")>>, <<"in", Str("path")>>, <<"value", Str("v")>>,
           <<"x-b", Num(2)>>, <<"x-a", Num(1)>>>>),
     Map(<<<<"reference", Str("$components.parameters.p")>>>>),
     Map(<<<<"value", Str("v")>>>>)}

ParameterLists ==
    {Absent} \cup {List(l) : l \in SeqsOf(ParameterEntries, 0, MaxParameters)}

StepInput(stepId, operationId, operationPath, workflowId, parameters) ==
    Map(Entry("stepId", stepId) \o Entry("operationId", operationId)
        \o Entry("operationPath", operationPath) \o Entry("workflowId", workflowId)
        \o Entry("parameters", parameters))

\* a document whose one step is s
StepDocument(s) ==
    Document(<<Map(<<<<"workflowId", Str("w1")>>, <<"steps", List(<<s>>)>>>>)>>, Absent)

\* the documents that vary the targets and the parameters of a step
IsStepDocument(d) ==
    \E stepId \in {Absent, Str("s1")},
       operationId \in {Absent, Str(""), Str("op")},
       operationPath \in {Absent, Str("path")},
       workflowId \in {Absent, Str("wf")},
       parameters \in ParameterLists :
        d = StepDocument(StepInput(stepId, operationId, operationPath, workflowId,
                                   parameters))

RetryAfterInputs == {Absent} \cup {Num(n) : n \in (-1)..MaxRetryAfter}

FailureActionInput(name, type, workflowId, stepId, retryAfter, reference) ==
    Map(Entry("name", name) \o <<<<"type", Str(type)>>>>
        \o Entry("workflowId", workflowId) \o Entry("stepId", stepId)
        \o Entry("retryAfter", retryAfter) \o Entry("reference", reference))

SuccessActionInput(name, type, workflowId, stepId, reference) ==
    Map(Entry("name", name) \o <<<<"type", Str(type)>>>>
        \o Entry("workflowId", workflowId) \o Entry("stepId", stepId)
        \o Entry("reference", reference))

\* an action in a step's list, in its workflow's list, or in the components
ActionPlacements(key, poolKey, action) ==
    {Document(<<Map(<<<<"workflowId", Str("w1")>>,
                      <<"steps", List(<<Map(<<<<"stepId", Str("s1")>>,
                                              <<"operationId", Str("op")>>,
                                              <<key, List(<<action>>)>>>>)>>)>>>>)>>,
              Absent),
     Document(<<Map(<<<<"workflowId", Str("w1")>>,
                      <<"steps", List(<<DemoStep("s1", "op")>>)>>,
                      <<poolKey, List(<<action>>)>>>>)>>,
              Absent),
     Document(<<DemoWorkflow("w1", <<DemoStep("s1", "op")>>)>>,
              Map(<<<<poolKey, Map(<<<<"f", action>>>>)>>>>))}

\* the documents that vary one failure action or one success action
IsActionDocument(d) ==
    \E name \in {Absent, Str("n")},
       workflowId \in {Absent, Str(""), Str("w")},
       stepId \in {Absent, Str(""), Str("s")},
       reference \in {Absent, Str("$components.actions.f")} :
        \/ \E type \in FailureActionType, retryAfter \in RetryAfterInputs :
              d \in ActionPlacements("onFailure", "failureActions",
                                     FailureActionInput(name, type, workflowId, stepId,
                                                        retryAfter, reference))
        \/ \E type \in SuccessActionType :
              d \in ActionPlacements("onSuccess", "successActions",
                                     SuccessActionInput(name, type, workflowId, stepId,
                                                        reference))

IdLists == SeqsOf(IdUniverse, 1, MaxIds)

\* a workflow-level parameters list with two entries equal by value, or none
TwinParameters ==
    {Absent,
     List(<<Map(<<<<"name", Str("p")>>, <<"value", Str("v")>>>>),
            Map(<<<<"name", Str("p")>>, <<"value", Str("v")>>>>)>>)}

\* the identifiers ids as the names of the source descriptions, as the
\* workflowIds, or as the stepIds of one workflow; the elements of the list
\* differ in the rest of the object
IdentifierPlacements(ids, twin) ==
    {Map(<<<<"arazzo", Str("1.0.0")>>,
           <<"info", Map(<<<<"title", Str("t")>>, <<"version", Str("1.0.0")>>>>)>>,
           <<"sourceDescriptions",
             List([i \in 1..Len(ids) |->
                     Map(<<<<"name", Str(ids[i])>>,
                           <<"url", Str("http://api.example.com")>>,
                           <<"x-n", Str(Idx(i))>>>>)])>>,
           <<"workflows", List(<<
               Map(<<<<"workflowId", Str("w1")>>,
                     <<"steps", List(<<DemoStep("s1", "op")>>)>>>>
                   \o Entry("parameters", twin))>>)>>>>),
     Document([i \in 1..Len(ids) |->
                 Map(<<<<"workflowId", Str(ids[i])>>,
                       <<"steps", List(<<DemoStep("s1", Idx(i))>>)>>>>
                     \o (IF i = 1 THEN Entry("parameters", twin) ELSE <<>>))],
              Absent),
     Document(<<Map(<<<<"workflowId", Str("w1")>>,
                      <<"steps", List([i \in 1..Len(ids) |-> DemoStep(ids[i], Idx(i))])>>>>
                    \o Entry("parameters", twin))>>,
              Absent)}

IsIdentifierDocument(d) ==
    \E ids \in IdLists, twin \in TwinParameters : d \in IdentifierPlacements(ids, twin)

MaxCriteria == 1

ExpressionTypeInput(type, version) ==
    Map(<<<<"type", Str(type)>>, <<"version", Str(version)>>>>)

\* the type of a criterion as written: left out, a plain tag, or an
\* expression-type object with a recognized or an unrecognized version
CriterionTypeInputs ==
    {Absent} \cup {Str(t) : t \in ConditionType}
    \cup {ExpressionTypeInput(t, v) :
             t \in ExpressionType, v \in {JsonPathVersion, "xpath-40"} \cup XPathVersion}

CriterionInput(context, type) ==
    Map(Entry("context", context) \o <<<<"condition", Str("c")>>>> \o Entry("type", type))

CriterionEntries ==
    {CriterionInput(context, type) :
        context \in {Absent, Str(""), Str("$response.body")},
        type \in CriterionTypeInputs}

\* a criteria list as the successCriteria of a step, as the criteria of a
\* success action of the step, or as the criteria of a failure action of it
CriteriaPlacements(criteria) ==
    {StepDocument(Map(<<<<"stepId", Str("s1")>>, <<"operationId", Str("op")>>,
                        <<"successCriteria", criteria>>>>)),
     StepDocument(Map(<<<<"stepId", Str("s1")>>, <<"operationId", Str("op")>>,
                        <<"onSuccess", List(<<Map(<<<<"name", Str("n")>>,
                                                    <<"type", Str("end")>>,
                                                    <<"criteria", criteria>>>>)>>)>>>>)),
     StepDocument(Map(<<<<"stepId", Str("s1")>>, <<"operationId", Str("op")>>,
                        <<"onFailure", List(<<Map(<<<<"name", Str("n")>>,
                                                    <<"type", Str("end")>>,
                                                    <<"criteria", criteria>>>>)>>)>>>>))}

\* the documents that vary one criteria list, the empty list included
IsCriteriaDocument(d) ==
    \E l \in SeqsOf(CriterionEntries, 0, MaxCriteria) : d \in CriteriaPlacements(List(l))

SourceNames == {"api", "my_api-1", "my\\api", "my api", "my.api", ""}

\* a document of one source description and one workflow of two steps
HeadDocument(arazzo, title, version, name, url, target1, target2, extension) ==
    Map(Entry("arazzo", arazzo)
        \o <<<<"info", Map(Entry("title", title) \o Entry("version", version))>>,
             <<"sourceDescriptions",
               List(<<Map(<<<<"name", Str(name)>>, <<"url", Str(url)>>>>)>>)>>,
             <<"workflows",
               List(<<Map(<<<<"workflowId", Str("w1")>>,
                            <<"steps",
                              List(<<Map(<<<<"stepId", Str("s1")>>>>
                                         \o Entry("operationId", target1)),
                                     Map(<<<<"stepId", Str("s2")>>>>
                                         \o Entry("operationId", target2))>>)>>>>)>>)>>>>
        \o Entry("x-custom-extension", extension))

\* the documents that vary the version, the info, the source description,
\* the targets of two sibling steps and a top-level extension, each apart
\* from the others
IsHeadDocument(d) ==
    \E arazzo \in {Absent, Str("1.0.0"), Str("1.1.0")},
       title \in {Absent, Str("t")},
       version \in {Absent, Str("1.0.0"), Num(1)},
       name \in SourceNames,
       url \in {"http://api.example.com", "http://api example.com"},
       target1 \in {Absent, Str("op")},
       target2 \in {Absent, Str("op")},
       extension \in {Absent, Str("some-value")} :
        d = HeadDocument(arazzo, title, version, name, url, target1, target2, extension)

MaxElements == 3

\* a list of elements as written: of each its identifier and whether it is
\* written so that it fails on its own
ElementLists == SeqsOf(IdUniverse \X BOOLEAN, 2, MaxElements)

\* the elements es as the source descriptions (one fails by its url), as the
\* workflows (one fails by a step without target), as the steps of a
\* workflow (one fails by having no target), as the dependsOn of a workflow
\* (one fails by being a number) or as the parameters of a workflow (one
\* fails by having no value)
GatedPlacements(es) ==
    {Map(<<<<"arazzo", Str("1.0.0")>>,
           <<"info", Map(<<<<"title", Str("t")>>, <<"version", Str("1.0.0")>>>>)>>,
           <<"sourceDescriptions",
             List([i \in 1..Len(es) |->
                     Map(<<<<"name", Str(es[i][1])>>,
                           <<"url", Str(IF es[i][2] THEN "http://api example.com"
                                        ELSE "http://api.example.com")>>,
                           <<"x-n", Str(Idx(i))>>>>)])>>,
           <<"workflows", List(<<DemoWorkflow("w1", <<DemoStep("s1", "op")>>)>>)>>>>),
     Document([i \in 1..Len(es) |->
                 DemoWorkflow(es[i][1],
                              <<IF es[i][2] THEN Map(<<<<"stepId", Str("s1")>>>>)
                                ELSE DemoStep("s1", Idx(i))>>)],
              Absent),
     Document(<<DemoWorkflow("w1",
                             [i \in 1..Len(es) |->
                                 IF es[i][2] THEN Map(<<<<"stepId", Str(es[i][1])>>>>)
                                 ELSE DemoStep(es[i][1], Idx(i))])>>,
              Absent),
     Document(<<Map(<<<<"workflowId", Str("w1")>>,
                      <<"dependsOn",
                        List([i \in 1..Len(es) |->
                                IF es[i][2] THEN Num(1) ELSE Str(es[i][1])])>>,
                      <<"steps", List(<<DemoStep("s1", "op")>>)>>>>)>>,
              Absent),
     Document(<<Map(<<<<"workflowId", Str("w1")>>,
                      <<"steps", List(<<DemoStep("s1", "op")>>)>>,
                      <<"parameters",
                        List([i \in 1..Len(es) |->
                                IF es[i][2] THEN Map(<<<<"name", Str(es[i][1])>>>>)
                                ELSE Map(<<<<"name", Str(es[i][1])>>,
                                           <<"value", Str("v")>>>>)])>>>>)>>,
              Absent)}

\* the documents that vary one list checked for uniqueness: repeated
\* elements, next to elements that fail on their own
IsGatedDocument(d) == \E es \in ElementLists : d \in GatedPlacements(es)

(***************************************************************************)
(* The state machine: a caller holds a decoded document and validates it   *)
(***************************************************************************)
NoResult == [kind |-> "none"]

Init ==
    /\ \/ data \in DemoDocuments
       \/ IsStepDocument(data)
       \/ IsActionDocument(data)
       \/ IsIdentifierDocument(data)
       \/ IsCriteriaDocument(data)
       \/ IsGatedDocument(data)
       \/ IsHeadDocument(data)
    /\ pc = "start"
    /\ result = NoResult
    /\ second = NoResult

\* one call validate_arazzo_data(data), in a process whose string hash seed
\* gives the identifiers the order `order`
Validate ==
    /\ pc = "start"
    /\ \E order \in HashOrders : result' = validate_arazzo_data(data, order)
    /\ pc' = "done"
    /\ UNCHANGED <<data, second>>

\* the same document validated once more, in the same process or in another
\* one (another run of the program, with its own hash seed)
Revalidate ==
    /\ pc = "done"
    /\ \E order \in HashOrders : second' = validate_arazzo_data(data, order)
    /\ pc' = "again"
    /\ UNCHANGED <<data, result>>

Next == Validate \/ Revalidate

Spec == Init /\ [][Next]_vars

(***************************************************************************)
(* Reading a decoded document and a validated Document                     *)
(***************************************************************************)
Range(s) == {s[i] : i \in 1..Len(s)}

\* a key counts as given when the mapping holds it with a value other than null
Given(m, k) == HasKey(m, k) /\ ~IsNone(Lookup(m, k))

RawList(m, k) == IF Given(m, k) THEN Lookup(m, k).v ELSE <<>>

RawWorkflows(d) == RawList(d, "workflows")

RawSteps(d) == UNION {Range(RawList(w, "steps")) : w \in Range(RawWorkflows(d))}

RawPool(d, poolKey) ==
    IF Given(d, "components")
    THEN {p[2] : p \in Range(RawList(Lookup(d, "components"), poolKey))}
    ELSE {}

\* the entries of the action lists of the steps, of the workflows and of the
\* components pool
RawActions(d, key, poolKey) ==
    UNION {Range(RawList(s, key)) : s \in RawSteps(d)}
    \cup UNION {Range(RawList(w, poolKey)) : w \in Range(RawWorkflows(d))}
    \cup RawPool(d, poolKey)

RawTargets(s) == {k \in {"operationId", "operationPath", "workflowId"} : Given(s, k)}

RawActionTargets(a) == {k \in {"workflowId", "stepId"} : Given(a, k)}

\* an entry that validates as a Parameter or as a ReusableObject
WellTypedParameter(e) == (Given(e, "name") /\ HasKey(e, "value")) \/ Given(e, "reference")

\* a Parameter entry proper, written without "in"
PlainWithoutIn(e) ==
    Given(e, "name") /\ HasKey(e, "value") /\ ~Given(e, "in") /\ ~Given(e, "reference")

\* a step whose fields are individually well-typed
WellTypedStep(s) ==
    /\ Given(s, "stepId")
    /\ \A e \in Range(RawList(s, "parameters")) : WellTypedParameter(e)

\* an action proper (no reference to the components) whose fields are
\* individually well-typed
WellTypedAction(a) ==
    /\ Given(a, "name") /\ Given(a, "type") /\ ~Given(a, "reference")
    /\ Given(a, "retryAfter") => Lookup(a, "retryAfter").v >= 0

Items(x) == IF IsNone(x) THEN <<>> ELSE x.v

StepsOf(doc) == UNION {Range(w.steps.v) : w \in Range(doc.workflows.v)}

PoolOf(doc, pool) ==
    IF ~IsBaseModel(doc.components) THEN {}
    ELSE {p[2] : p \in Range(Items(doc.components[pool]))}

\* the typed entries of the action lists of a validated Document
ActionsOf(doc, field, pool) ==
    UNION {Range(Items(s[field])) : s \in StepsOf(doc)}
    \cup UNION {Range(Items(w[pool])) : w \in Range(doc.workflows.v)}
    \cup PoolOf(doc, pool)

SuccessActionsOf(doc) ==
    {a \in ActionsOf(doc, "on_success", "success_actions") : a.cls = "SuccessAction"}

FailureActionsOf(doc) ==
    {a \in ActionsOf(doc, "on_failure", "failure_actions") : a.cls = "FailureAction"}

PresentActionTargets(a) == {f \in {"workflow_id", "step_id"} : ~IsNone(a[f])}

Errors == IF result.kind = "ValidationError" THEN result.errors ELSE <<>>

\* the call ended with a ValidationError that holds an error of this kind
RejectedWith(kind) == \E i \in 1..Len(Errors) : Errors[i].type = kind

RejectedAt(kind, loc) ==
    \E i \in 1..Len(Errors) : Errors[i].type = kind /\ Errors[i].loc = loc

\* equality of JSON values that disregards the order of the keys of mappings
RECURSIVE SameValue(_, _)
SameValue(a, b) ==
    IF a.t # b.t THEN FALSE
    ELSE IF a.t = "map"
         THEN /\ Len(a.v) = Len(b.v)
              /\ \A i \in 1..Len(a.v) :
                    /\ HasKey(b, a.v[i][1])
                    /\ SameValue(a.v[i][2], Lookup(b, a.v[i][1]))
         ELSE IF a.t = "list"
              THEN /\ Len(a.v) = Len(b.v)
                   /\ \A i \in 1..Len(a.v) : SameValue(a.v[i], b.v[i])
              ELSE a = b

\* the value-keyed parameters lists of a decoded document, with their paths
RawParameterLists(d) ==
    {[loc |-> <<"workflows", Idx(w), "parameters">>,
      items |-> RawList(RawWorkflows(d)[w], "parameters")] :
        w \in 1..Len(RawWorkflows(d))}
    \cup UNION {{[loc |-> <<"workflows", Idx(w), "steps", Idx(s), "parameters">>,
                  items |-> RawList(RawList(RawWorkflows(d)[w], "steps")[s], "parameters")] :
                    s \in 1..Len(RawList(RawWorkflows(d)[w], "steps"))} :
                 w \in 1..Len(RawWorkflows(d))}

AnyOrder == CHOOSE o \in HashOrders : TRUE

\* the identifier-keyed lists of a decoded document, with their paths, the
\* key of the identifier, and whether every element is valid on its own
RawIdentifierLists(d) ==
    {[loc |-> <<"sourceDescriptions">>, key |-> "name",
      items |-> RawList(d, "sourceDescriptions"),
      valid |-> \A e \in Range(RawList(d, "sourceDescriptions")) :
                   Passed(SourceDescription(e, <<>>))],
     [loc |-> <<"workflows">>, key |-> "workflowId",
      items |-> RawWorkflows(d),
      valid |-> \A e \in Range(RawWorkflows(d)) : Passed(Workflow(e, <<>>, AnyOrder))]}
    \cup
    {[loc |-> <<"workflows", Idx(w), "steps">>, key |-> "stepId",
      items |-> RawList(RawWorkflows(d)[w], "steps"),
      valid |-> \A e \in Range(RawList(RawWorkflows(d)[w], "steps")) :
                   Passed(Step(e, <<>>))] :
        w \in 1..Len(RawWorkflows(d))}

IdsOf(l) == [i \in 1..Len(l.items) |-> Lookup(l.items[i], l.key).v]

RepeatedIds(ids) ==
    {ids[i] : i \in {k \in 1..Len(ids) : \E m \in 1..Len(ids) : m # k /\ ids[m] = ids[k]}}

PairwiseDistinct(ids) == \A i, k \in 1..Len(ids) : i # k => ids[i] # ids[k]

\* exactly one error is located at the list, a duplicate error that names
\* each repeated identifier once
OneDuplicateError(loc, ids) ==
    /\ Cardinality({i \in 1..Len(Errors) : Errors[i].loc = loc}) = 1
    /\ \E i \in 1..Len(Errors) :
          /\ Errors[i].loc = loc
          /\ Errors[i].type = "value_error"
          /\ Range(Errors[i].ctx[1][2].v) = RepeatedIds(ids)
          /\ Len(Errors[i].ctx[1][2].v) = Cardinality(RepeatedIds(ids))

\* the criteria lists of a step and of the actions of the step, as written,
\* with their paths (an action of a union is located under its class)
RawCriteriaOfStep(step, loc) ==
    {[loc |-> loc \o <<"successCriteria">>, on |-> "Step",
      given |-> Given(step, "successCriteria"),
      items |-> RawList(step, "successCriteria")]}
    \cup {[loc |-> loc \o <<"onSuccess", Idx(a), "SuccessAction", "criteria">>,
           on |-> "SuccessAction",
           given |-> Given(RawList(step, "onSuccess")[a], "criteria"),
           items |-> RawList(RawList(step, "onSuccess")[a], "criteria")] :
             a \in 1..Len(RawList(step, "onSuccess"))}
    \cup {[loc |-> loc \o <<"onFailure", Idx(a), "FailureAction", "criteria">>,
           on |-> "FailureAction",
           given |-> Given(RawList(step, "onFailure")[a], "criteria"),
           items |-> RawList(RawList(step, "onFailure")[a], "criteria")] :
             a \in 1..Len(RawList(step, "onFailure"))}

RawCriteriaLists(d) ==
    UNION {UNION {RawCriteriaOfStep(RawList(RawWorkflows(d)[w], "steps")[s],
                                    <<"workflows", Idx(w), "steps", Idx(s)>>) :
                     s \in 1..Len(RawList(RawWorkflows(d)[w], "steps"))} :
              w \in 1..Len(RawWorkflows(d))}

\* a criterion whose fields are individually well-typed: a condition, and a
\* type that is left out, one of the four tags, or an expression-type object
\* with a version recognized for its type
WellTypedCriterion(c) ==
    /\ Given(c, "condition")
    /\ HasKey(c, "type") =>
          \/ Lookup(c, "type").t = "str" /\ Lookup(c, "type").v \in ConditionType
          \/ /\ Lookup(c, "type").t = "map"
             /\ \/ /\ Lookup(Lookup(c, "type"), "type") = Str("jsonpath")
                   /\ Lookup(Lookup(c, "type"), "version") = Str(JsonPathVersion)
                \/ /\ Lookup(Lookup(c, "type"), "type") = Str("xpath")
                   /\ Lookup(Lookup(c, "type"), "version").v \in XPathVersion

\* the type as written is the tag jsonpath or xpath, or an object
NeedsContext(c) ==
    /\ HasKey(c, "type")
    /\ \/ Lookup(c, "type").t = "map"
       \/ Lookup(c, "type").v \in {"jsonpath", "xpath"}

\* the criteria lists of a validated Document that are present: the
\* successCriteria of the steps and the criteria of the actions
CriteriaListsOf(doc) ==
    {l \in {s.success_criteria : s \in StepsOf(doc)}
           \cup {a.criteria : a \in SuccessActionsOf(doc) \cup FailureActionsOf(doc)} :
        ~IsNone(l)}

CriteriaOf(doc) == UNION {Range(l.v) : l \in CriteriaListsOf(doc)}

\* no error record is located at loc or below it
NoErrorUnder(loc) ==
    \A i \in 1..Len(Errors) :
        ~(/\ Len(Errors[i].loc) >= Len(loc)
          /\ SubSeq(Errors[i].loc, 1, Len(loc)) = loc)

\* the decoded document d with a version added to its info
WithInfoVersion(d) ==
    Map([i \in 1..Len(d.v) |->
            IF d.v[i][1] = "info"
            THEN <<"info", Map(d.v[i][2].v \o <<<<"version", Str("1.0.0")>>>>)>>
            ELSE d.v[i]])

\* arazzo_spec.model_extra.get(key), as the driver reads an extension: the
\* value the extras hold under key, None when they hold no such key
model_extra_get(doc, key) ==
    IF \E i \in 1..Len(doc.model_extra) : doc.model_extra[i][1] = key
    THEN doc.model_extra[CHOOSE i \in 1..Len(doc.model_extra) :
                            doc.model_extra[i][1] = key][2]
    ELSE Null

\* the violations of a decoded document that are local to one field of the
\* root, of the info or of a source description, or to one step (a step,
\* its fields well-typed, without any target), each as the kind and the path
\* of the error record that reports it
Violations(d) ==
    (IF ~HasKey(d, "arazzo") THEN {[type |-> "missing", loc |-> <<"arazzo">>]}
     ELSE IF ~MatchesArazzoPattern(Lookup(d, "arazzo").v)
          THEN {[type |-> "string_pattern_mismatch", loc |-> <<"arazzo">>]}
          ELSE {})
    \cup {[type |-> IF HasKey(Lookup(d, "info"), k) THEN "string_type" ELSE "missing",
           loc |-> <<"info", k>>] :
             k \in {f \in {"title", "version"} :
                       \/ ~HasKey(Lookup(d, "info"), f)
                       \/ Lookup(Lookup(d, "info"), f).t # "str"}}
    \cup {[type |-> "string_pattern_mismatch",
           loc |-> <<"sourceDescriptions", Idx(i), "name">>] :
             i \in {k \in 1..Len(RawList(d, "sourceDescriptions")) :
                       ~MatchesNamePattern(Lookup(RawList(d, "sourceDescriptions")[k],
                                                  "name").v)}}
    \cup {[type |-> "value_error", loc |-> <<"sourceDescriptions", Idx(i), "url">>] :
             i \in {k \in 1..Len(RawList(d, "sourceDescriptions")) :
                       HasWhitespace(Lookup(RawList(d, "sourceDescriptions")[k],
                                            "url").v)}}
    \cup UNION {{[type |-> "step_missing_target_type",
                  loc |-> <<"workflows", Idx(w), "steps", Idx(s)>>] :
                    s \in {k \in 1..Len(RawList(RawWorkflows(d)[w], "steps")) :
                              /\ WellTypedStep(RawList(RawWorkflows(d)[w], "steps")[k])
                              /\ RawTargets(RawList(RawWorkflows(d)[w], "steps")[k]) = {}}} :
                 w \in 1..Len(RawWorkflows(d))}

\* what each duplicate error of a collection of error records lists, in the
\* order of the listing; None for a record of another kind
DuplicateListings(errors) ==
    [i \in 1..Len(errors) |->
        IF errors[i].type = "value_error" /\ errors[i].ctx # <<>>
        THEN errors[i].ctx[1][2]
        ELSE Null]

\* the value-keyed parameters and dependsOn lists of a decoded document,
\* with their paths and whether every element is valid on its own
RawValueLists(d) ==
    {[loc |-> l.loc, valid |-> \A e \in Range(l.items) : WellTypedParameter(e)] :
        l \in RawParameterLists(d)}
    \cup {[loc |-> <<"workflows", Idx(w), "dependsOn">>,
           valid |-> \A e \in Range(RawList(RawWorkflows(d)[w], "dependsOn")) :
                        e.t = "str"] :
            w \in 1..Len(RawWorkflows(d))}

(***************************************************************************)
(* The claims                                                              *)
(***************************************************************************)

\* C1: every Step of a returned Document has exactly one of operationId,
\* operationPath, workflowId present; and an input whose step (its fields
\* individually well-typed) has none of the three is rejected with an error
\* of kind step_missing_target_type, one whose step has two or three of them
\* with an error of kind step_exclusive_target_type.
C1_StepTargetExclusivity ==
    /\ result.kind = "Document" =>
          \A s \in StepsOf(result.doc) : Cardinality(PresentTargets(s)) = 1
    /\ pc = "done" =>
          \A s \in RawSteps(data) :
              WellTypedStep(s) =>
                  /\ RawTargets(s) = {} => RejectedWith("step_missing_target_type")
                  /\ Cardinality(RawTargets(s)) > 1 =>
                        RejectedWith("step_exclusive_target_type")

\* C2: in every returned Document, every Step whose operationId or
\* operationPath is present (the empty string included) has a location tag
\* "in" on every entry of its parameters that is a Parameter.
C2_OperationParametersHaveIn ==
    result.kind = "Document" =>
        \A s \in StepsOf(result.doc) :
            (~IsNone(s.operation_id) \/ ~IsNone(s.operation_path)) =>
                \A p \in Range(Items(s.parameters)) :
                    p.cls = "Parameter" => ~IsNone(p.in_)

\* C3: for an operation-targeted step (exactly one target, a non-empty
\* operationId or operationPath; its fields well-typed, no two entries of
\* its parameters alike) and every index i of its parameters at which a
\* Parameter has no "in", the errors hold one of kind
\* parameter_in_required_for_operation whose parameter_index is i, also when
\* an earlier index lacks the tag.
C3_EveryIndexWithoutInReported ==
    pc = "done" =>
        \A s \in RawSteps(data) :
            (/\ WellTypedStep(s)
             /\ Cardinality(RawTargets(s)) = 1
             /\ RawTargets(s) \subseteq {"operationId", "operationPath"}
             /\ \A k \in RawTargets(s) : Lookup(s, k).v # ""
             /\ PairwiseDistinct(RawList(s, "parameters"))) =>
                \A i \in 1..Len(RawList(s, "parameters")) :
                    PlainWithoutIn(RawList(s, "parameters")[i]) =>
                        \E k \in 1..Len(Errors) :
                            /\ Errors[k].type = "parameter_in_required_for_operation"
                            /\ Errors[k].ctx = <<<<"parameter_index", Num(i - 1)>>>>

\* C4: when a value-keyed list (here: the parameters of a step or of a
\* workflow, every entry well-typed) holds two entries equal by value, the
\* call ends with a ValidationError that holds a duplicate-value error
\* located at that list, not with an exception of another kind.
C4_ValueDuplicatesReported ==
    pc = "done" =>
        \A l \in RawParameterLists(data) :
            (/\ \A e \in Range(l.items) : WellTypedParameter(e)
             /\ \E i, k \in 1..Len(l.items) : i # k /\ l.items[i] = l.items[k]) =>
                RejectedAt("value_error", l.loc)

\* C5: no returned Document holds, in one parameters list, two entries with
\* the same keys and values whose mapping keys (the extras of the entry, the
\* keys of a mapping held in "value") are written in a different order.
C5_DuplicatesWhateverTheKeyOrder ==
    result.kind = "Document" =>
        \A s \in StepsOf(result.doc) :
            \A i, k \in 1..Len(Items(s.parameters)) :
                i # k =>
                    ~SameValue(model_dump_json(s.parameters.v[i]),
                               model_dump_json(s.parameters.v[k]))

\* C6: in every returned Document the names of the source descriptions, the
\* workflowIds, and the stepIds of each workflow are pairwise distinct; and
\* when the elements of such a list are all valid on their own and an
\* identifier occurs more than once, the call ends with a ValidationError
\* that holds one duplicate error for that list, naming every identifier that
\* occurs more than once.
C6_IdentifierUniqueness ==
    /\ result.kind = "Document" =>
          /\ PairwiseDistinct([i \in 1..Len(result.doc.source_descriptions.v) |->
                                  result.doc.source_descriptions.v[i].name.v])
          /\ PairwiseDistinct([i \in 1..Len(result.doc.workflows.v) |->
                                  result.doc.workflows.v[i].workflow_id.v])
          /\ \A w \in Range(result.doc.workflows.v) :
                PairwiseDistinct([i \in 1..Len(w.steps.v) |-> w.steps.v[i].step_id.v])
    /\ pc = "done" =>
          \A l \in RawIdentifierLists(data) :
              (l.valid /\ ~PairwiseDistinct(IdsOf(l))) =>
                  /\ result.kind = "ValidationError"
                  /\ OneDuplicateError(l.loc, IdsOf(l))

\* C7: the driver's valid_arazzo_data is accepted: the result is a Document
\* (no errors) whose extras hold the top-level extension value "some-value".
C7_DemoDocumentAccepted ==
    (pc = "done" /\ data = valid_arazzo_data) =>
        /\ result.kind = "Document"
        /\ \E i \in 1..Len(result.doc.model_extra) :
              result.doc.model_extra[i][2] = Str("some-value")

\* C8: in every returned Document every SuccessAction of type goto and every
\* FailureAction of type goto or retry has exactly one of workflowId, stepId
\* present (the empty string counts as present); an action (its fields
\* well-typed) with none of them is rejected with goto_missing_target or
\* goto_retry_missing_target, one with both with goto_exclusive_target or
\* goto_retry_exclusive_target.
C8_ActionTargetExclusivity ==
    /\ result.kind = "Document" =>
          /\ \A a \in SuccessActionsOf(result.doc) :
                a.type.v = "goto" => Cardinality(PresentActionTargets(a)) = 1
          /\ \A a \in FailureActionsOf(result.doc) :
                a.type.v \in {"goto", "retry"} =>
                    Cardinality(PresentActionTargets(a)) = 1
    /\ pc = "done" =>
          /\ \A a \in RawActions(data, "onSuccess", "successActions") :
                (WellTypedAction(a) /\ Lookup(a, "type").v = "goto") =>
                    /\ RawActionTargets(a) = {} => RejectedWith("goto_missing_target")
                    /\ Cardinality(RawActionTargets(a)) = 2 =>
                          RejectedWith("goto_exclusive_target")
          /\ \A a \in RawActions(data, "onFailure", "failureActions") :
                (WellTypedAction(a) /\ Lookup(a, "type").v \in {"goto", "retry"}) =>
                    /\ RawActionTargets(a) = {} =>
                          RejectedWith("goto_retry_missing_target")
                    /\ Cardinality(RawActionTargets(a)) = 2 =>
                          RejectedWith("goto_retry_exclusive_target")

\* C9: in every returned Document every FailureAction of type retry, in the
\* onFailure of a step, in the failureActions of a workflow or in the
\* components pool, has retryAfter present and retryAfter >= 0.
C9_RetryHasRetryAfter ==
    result.kind = "Document" =>
        \A a \in FailureActionsOf(result.doc) :
            a.type.v = "retry" => (~IsNone(a.retry_after) /\ a.retry_after.v >= 0)

\* a Document was returned whose components pool holds a FailureAction of
\* type retry, its retryAfter at the bound 0
C9_RetryAccepted ==
    /\ result.kind = "Document"
    /\ \E a \in PoolOf(result.doc, "failure_actions") :
          a.type.v = "retry" /\ a.retry_after = Num(0)

\* C10: every FailureAction of type retry whose fields are individually
\* well-typed and whose retryAfter is absent yields an error of kind
\* retry_missing_retry_after, whatever its workflowId and stepId are.
C10_RetryWithoutRetryAfterReported ==
    pc = "done" =>
        \A a \in RawActions(data, "onFailure", "failureActions") :
            (/\ WellTypedAction(a)
             /\ Lookup(a, "type").v = "retry"
             /\ ~Given(a, "retryAfter")) =>
                RejectedWith("retry_missing_retry_after")


C12_ExpressionTypeVersion ==
    /\ result.kind = "Document" =>
          \A c \in CriteriaOf(result.doc) :
              IsBaseModel(c.type) =>
                  /\ c.type.type.v = "jsonpath" =>
                        c.type.version.v = "draft-goessner-dispatch-jsonpath-00"
                  /\ c.type.type.v = "xpath" =>
                        c.type.version.v \in {"xpath-10", "xpath-20", "xpath-30"}
    /\ pc = "done" =>
          \A l \in RawCriteriaLists(data) : \A i \in 1..Len(l.items) :
              (/\ Given(l.items[i], "condition")
               /\ Given(l.items[i], "type")
               /\ Lookup(l.items[i], "type").t = "map") =>
                  /\ (/\ Lookup(Lookup(l.items[i], "type"), "type") = Str("jsonpath")
                      /\ Lookup(Lookup(l.items[i], "type"), "version")
                            # Str("draft-goessner-dispatch-jsonpath-00")) =>
                        RejectedAt("invalid_jsonpath_version",
                                   l.loc \o <<Idx(i), "type", "CriterionExpressionType">>)
                  /\ (/\ Lookup(Lookup(l.items[i], "type"), "type") = Str("xpath")
                      /\ Lookup(Lookup(l.items[i], "type"), "version").v
                            \notin {"xpath-10", "xpath-20", "xpath-30"}) =>
                        RejectedAt("invalid_xpath_version",
                                   l.loc \o <<Idx(i), "type", "CriterionExpressionType">>)

\* an expression-type object of type xpath was written with the version of
\* jsonpath, and the call ended with an error of kind invalid_xpath_version
\* located at the object
C12_XPathWithJsonPathVersionRejected ==
    /\ pc = "done"
    /\ \E l \in RawCriteriaLists(data) : \E i \in 1..Len(l.items) :
          /\ Given(l.items[i], "type")
          /\ Lookup(l.items[i], "type")
                = ExpressionTypeInput("xpath", "draft-goessner-dispatch-jsonpath-00")
          /\ RejectedAt("invalid_xpath_version",
                        l.loc \o <<Idx(i), "type", "CriterionExpressionType">>)


\* C13: when the info of a document has no version and the document is valid
\* otherwise (with a version added to its info it validates), the call ends
\* with a ValidationError whose error records are exactly one: kind missing,
\* located at info.version.
C13_MissingInfoVersion ==
    (/\ pc = "done"
     /\ Given(data, "info")
     /\ ~HasKey(Lookup(data, "info"), "version")
     /\ \E order \in HashOrders :
           validate_arazzo_data(WithInfoVersion(data), order).kind = "Document") =>
        /\ result.kind = "ValidationError"
        /\ result.errors = <<Err("missing", <<"info", "version">>, <<>>)>>

\* the driver's invalid_data_missing_info_version was validated and the one
\* error record is the missing info.version
C13_DemoMissingVersionReported ==
    /\ pc = "done"
    /\ data = invalid_data_missing_info_version
    /\ result.kind = "ValidationError"
    /\ result.errors = <<Err("missing", <<"info", "version">>, <<>>)>>


\* C14: every call ends in one of two ways: it returns a Document, or it
\* fails with a ValidationError that holds at least one error record; it
\* ends in no other way.
C14_DocumentOrErrors ==
    pc = "done" =>
        \/ result.kind = "Document"
        \/ result.kind = "ValidationError" /\ result.errors # <<>>


\* C15: when a document with the top-level key x-custom-extension is
\* returned as a Document, reading the extension map of the Document under
\* the key x_custom_extension gives the value as written.
C15_ExtensionUnderNormalizedKey ==
    (result.kind = "Document" /\ HasKey(data, "x-custom-extension")) =>
        model_extra_get(result.doc, "x_custom_extension")
            = Lookup(data, "x-custom-extension")


\* C16: validating the same document twice gives the same outcome: the
\* second call returns a Document equal to the first one, or fails with the
\* same error records.
C16_SameOutcomeTwice ==
    pc = "again" => second = result

\* C17: in every returned Document every criteria list that is present on a
\* SuccessAction or on a FailureAction, and every successCriteria list that
\* is present on a Step, has at least one element.
C17_CriteriaNotEmpty ==
    result.kind = "Document" =>
        \A l \in CriteriaListsOf(result.doc) : Len(l.v) >= 1

\* C18: in every returned Document the name of every source description
\* consists of characters among A-Z, a-z, 0-9, underscore and hyphen only
\* (the names of the documents validated hold no capital letter).
C18_SourceNameCharacters ==
    result.kind = "Document" =>
        \A sd \in Range(result.doc.source_descriptions.v) :
            /\ Len(Chars(sd.name.v)) >= 1
            /\ \A i \in 1..Len(Chars(sd.name.v)) :
                  Chars(sd.name.v)[i] \in Letters \cup Digits \cup {"_", "-"}


C20_SameDuplicateOrder ==
    (/\ pc = "again"
     /\ result.kind = "ValidationError"
     /\ second.kind = "ValidationError") =>
        DuplicateListings(result.errors) = DuplicateListings(second.errors)


\* C21: when an element of a list checked for uniqueness (the source
\* descriptions, the workflows, the steps of a workflow, a parameters or a
\* dependsOn list) fails on its own, the call reports no duplicate error
\* located at that list, also when the list holds repeated elements.
C21_NoDuplicateErrorWhenAnElementFailed ==
    pc = "done" =>
        \A l \in {[loc |-> x.loc, valid |-> x.valid] : x \in RawIdentifierLists(data)}
                 \cup RawValueLists(data) :
            ~l.valid => ~RejectedAt("value_error", l.loc)

\* a list of three elements, two valid ones of the same identifier and one
\* that fails on its own, was validated: the call ended with a
\* ValidationError that holds no duplicate error located at the list
C21_RepeatedIdsNextToAFailedElement ==
    /\ pc = "done"
    /\ result.kind = "ValidationError"
    /\ \E l \in RawIdentifierLists(data) :
          /\ ~l.valid
          /\ Len(l.items) = 3
          /\ \E i, k \in 1..3 :
                /\ i # k
                /\ IdsOf(l)[i] = IdsOf(l)[k]
                /\ Passed(IF l.key = "stepId" THEN Step(l.items[i], <<>>)
                          ELSE IF l.key = "name" THEN SourceDescription(l.items[i], <<>>)
                          ELSE Workflow(l.items[i], <<>>, AnyOrder))
                /\ Passed(IF l.key = "stepId" THEN Step(l.items[k], <<>>)
                          ELSE IF l.key = "name" THEN SourceDescription(l.items[k], <<>>)
                          ELSE Workflow(l.items[k], <<>>, AnyOrder))
          /\ ~RejectedAt("value_error", l.loc)


\* C22: no call reports an error of kind invalid_parameter_type_for_operation
\* or invalid_parameter_type_for_workflow, neither the first call on a
\* document nor a later one.
C22_ParameterTypeKindsUnreachable ==
    \A r \in {result, second} :
        r.kind = "ValidationError" =>
            \A i \in 1..Len(r.errors) :
                r.errors[i].type \notin {"invalid_parameter_type_for_operation",
                                         "invalid_parameter_type_for_workflow"}

\* a step with exactly one target, a non-empty one, whose parameters hold an
\* entry that is written neither as a Parameter nor as a ReusableObject was
\* validated: the call ended with a ValidationError whose records are all
\* located below the parameters of the step, at the entry's typing
C22_UntypedEntryRejectedByTyping ==
    /\ pc = "done"
    /\ result.kind = "ValidationError"
    /\ \E s \in RawSteps(data) :
          /\ Given(s, "stepId")
          /\ Cardinality(RawTargets(s)) = 1
          /\ \A k \in RawTargets(s) : Lookup(s, k).v # ""
          /\ \E e \in Range(RawList(s, "parameters")) : ~WellTypedParameter(e)
    /\ \A i \in 1..Len(result.errors) :
          /\ Len(result.errors[i].loc) > 5
          /\ SubSeq(result.errors[i].loc, 1, 5)
                = <<"workflows", "0", "steps", "0", "parameters">>

====
